---- MODULE Spec2Model ----
(***************************************************************************)
(* Kibala C2PA certificate authority and privacy gateway                   *)
(* (server/server.py, server/generate_root_ca.py).                         *)
(*                                                                         *)
(* The module-level start-up code, the sign_csr handler and the            *)
(* publish_photo handler are modelled as one state machine.  The external  *)
(* libraries (cryptography, c2pa, Pillow, the file system) are modelled by *)
(* their contract; every call that can raise is a nondeterministic choice  *)
(* between its result and an exception.                                    *)
(***************************************************************************)
EXTENDS Integers, Sequences, FiniteSets, TLC

VARIABLES
    certFiles,          \* content of cert_key/: [crt, key]
    phase,              \* position of the module-level code
    root_cert,          \* server.py:55
    root_key,           \* server.py:57
    warnings,           \* start-up warnings printed (server.py:63,65)
    gateway_key,        \* server.py:80
    gateway_cert,       \* server.py:82
    gateway_chain_pem,  \* server.py:121
    trust_anchors,      \* c2pa settings, server.py:129
    signResp,           \* outcome of the latest sign_csr call
    req,                \* the publish_photo calls, one record per request
    fs                  \* the temporary directories created by mkdtemp

vars == <<certFiles, phase, root_cert, root_key, warnings, gateway_key,
          gateway_cert, gateway_chain_pem, trust_anchors, signResp, req, fs>>

identity == <<root_cert, root_key, gateway_key, gateway_cert,
              gateway_chain_pem, trust_anchors>>

(***************************************************************************)
(* Bounds of the model                                                     *)
(***************************************************************************)
MaxSerial == 2          \* how many serial numbers random_serial_number has
MaxTime == 1            \* the clock reads 0..MaxTime (minutes past an epoch)
MaxDirs == 2            \* names mkdtemp can hand out

\* x509.random_serial_number(): integers of several decimal digits
Serials == {1000 * i + 2 : i \in 1..MaxSerial}
Times == 0..MaxTime
Dirs == 1..MaxDirs
Reqs == {"r1", "r2"}

(***************************************************************************)
(* Program constants                                                       *)
(***************************************************************************)
SkewMinutes == 5                \* timedelta(minutes=5)
ValidityDays == 365             \* timedelta(days=365)
MinutesPerDay == 1440
RootValidityDays == 3650        \* VALIDITY_DAYS

None == [none |-> TRUE]

(***************************************************************************)
(* Keys, names and X.509 values                                            *)
(***************************************************************************)
RootKeys == {"rk1", "rk2"}
GatewayKeys == {"gk1"}
DeviceKeys == {"dk1"}

\* key.public_key()
PublicKey(priv) == [pub |-> priv]

\* x509.SubjectKeyIdentifier.from_public_key(pk): a digest of the key
SubjectKeyIdentifier(pk) == [digest |-> pk.pub]

\* x509.AuthorityKeyIdentifier.from_issuer_public_key(pk): the same digest
AuthorityKeyIdentifier(pk) == [key_identifier |-> pk.pub]

RootSubject == "CN=Kibala Root CA"
GatewaySubject == "CN=imanmontajabi.com Gateway"
DeviceSubjects == {"CN=device-001"}

\* every name of x509.KeyUsage
KeyUsageBits == {"digital_signature", "content_commitment", "key_encipherment",
                 "data_encipherment", "key_agreement", "key_cert_sign",
                 "crl_sign", "encipher_only", "decipher_only"}

NoExt == [present |-> FALSE, critical |-> FALSE]

\* x509.BasicConstraints(ca=..., path_length=None) added with a criticality
BasicConstraints(ca, critical) ==
    [present |-> TRUE, critical |-> critical, ca |-> ca]

\* x509.KeyUsage(...) added with a criticality; bits is the set of usages set
KeyUsage(bits, critical) ==
    [present |-> TRUE, critical |-> critical, bits |-> bits]

\* x509.ExtendedKeyUsage([...]) added with a criticality
ExtendedKeyUsage(oids, critical) ==
    [present |-> TRUE, critical |-> critical, oids |-> oids]

\* a SubjectKeyIdentifier / AuthorityKeyIdentifier extension, non-critical
SkiExt(ski) == [present |-> TRUE, critical |-> FALSE, digest |-> ski.digest]
AkiExt(aki) ==
    [present |-> TRUE, critical |-> FALSE, key_identifier |-> aki.key_identifier]

\* certificate.public_bytes(Encoding.PEM).decode().strip()
Pem(cert) == [pem |-> cert]

\* format(n, "x"): the digits of n to the base sixteen
RECURSIVE HexString(_)
HexString(n) ==
    IF n < 16 THEN <<n>> ELSE Append(HexString(n \div 16), n % 16)

\* str(n) for n >= 0: the decimal digits of n
RECURSIVE DecimalString(_)
DecimalString(n) ==
    IF n < 10 THEN <<n>> ELSE Append(DecimalString(n \div 10), n % 10)

\* datetime.isoformat()
IsoFormat(t) == [iso |-> t]

(***************************************************************************)
(* generate_root_ca.py: the root certificate generate() writes             *)
(***************************************************************************)
generate(key, serial, now) ==
    [subject |-> RootSubject,
     issuer |-> RootSubject,
     public_key |-> PublicKey(key),
     serial_number |-> serial,
     not_valid_before |-> now - SkewMinutes,
     not_valid_after |-> now + RootValidityDays * MinutesPerDay,
     basic_constraints |-> BasicConstraints(TRUE, TRUE),
     key_usage |-> KeyUsage({"key_cert_sign", "crl_sign"}, TRUE),
     extended_key_usage |-> NoExt,
     subject_key_identifier |-> SkiExt(SubjectKeyIdentifier(PublicKey(key))),
     authority_key_identifier |-> NoExt,
     signed_by |-> PublicKey(key)]

(***************************************************************************)
(* The files the server finds in cert_key/ when it starts.  The server     *)
(* reads whatever is there: the certificate generate() wrote, a PEM        *)
(* certificate that differs from it in one of its CA extensions, a file    *)
(* that is no PEM, or nothing; and a private key that need not be the one  *)
(* the certificate was made for.  One departure at a time from what        *)
(* generate() writes.                                                      *)
(***************************************************************************)
Missing == [file |-> "missing"]
Garbage == [file |-> "garbage"]
PemFile(x) == [file |-> "pem", content |-> x]

RootCertFiles ==
    LET generated == generate("rk1", 1, 0) IN
    {generated}
    \cup { [generated EXCEPT !.basic_constraints = bc] :
             bc \in {NoExt, BasicConstraints(FALSE, TRUE),
                     BasicConstraints(TRUE, FALSE)} }
    \cup { [generated EXCEPT !.key_usage = ku] :
             ku \in {NoExt, KeyUsage({"key_cert_sign", "crl_sign"}, FALSE),
                     KeyUsage({"digital_signature"}, TRUE)} }
    \cup { [generated EXCEPT !.subject_key_identifier = NoExt] }

CertFileStates ==
    LET generated == PemFile(generate("rk1", 1, 0)) IN
    \* any certificate with the key it was made for
    {[crt |-> PemFile(c), key |-> PemFile("rk1")] : c \in RootCertFiles}
    \* the generated certificate with any key
    \cup {[crt |-> generated, key |-> PemFile(k)] : k \in RootKeys}
    \* files that are missing or do not parse
    \cup [crt : {Missing, Garbage, generated},
          key : {Missing, Garbage, PemFile("rk1")}]

\* the Trust Root invariant of the data model: BasicConstraints(isCA) critical,
\* KeyUsage(keyCertSign, crlSign) critical, a SubjectKeyIdentifier
RootInvariant(cert) ==
    /\ cert.basic_constraints.present
    /\ cert.basic_constraints.critical
    /\ cert.basic_constraints.ca
    /\ cert.key_usage.present
    /\ cert.key_usage.critical
    /\ {"key_cert_sign", "crl_sign"} \subseteq cert.key_usage.bits
    /\ cert.subject_key_identifier.present

(***************************************************************************)
(* End-entity certificates (server.py:82-116 and 169-221)                  *)
(***************************************************************************)
\* the extensions copied from what the issuer itself carries
EndEntityExtensionsOfIssuer(subject_public_key, issuer_key) ==
    [basic_constraints |-> BasicConstraints(TRUE, TRUE),
     key_usage |-> KeyUsage({"digital_signature", "key_cert_sign"}, TRUE),
     extended_key_usage |-> ExtendedKeyUsage({"emailProtection"}, FALSE),
     subject_key_identifier |->
         SkiExt(SubjectKeyIdentifier(subject_public_key)),
     authority_key_identifier |->
         AkiExt(AuthorityKeyIdentifier(PublicKey(issuer_key)))]

\* the extension set both builders add, server.py:94-115 and 180-215
EndEntityExtensions(subject_public_key, issuer_key) ==
    [basic_constraints |-> BasicConstraints(FALSE, TRUE),
     key_usage |-> KeyUsage({"digital_signature"}, TRUE),
     extended_key_usage |-> ExtendedKeyUsage({"emailProtection"}, FALSE),
     subject_key_identifier |->
         SkiExt(SubjectKeyIdentifier(subject_public_key)),
     authority_key_identifier |->
         AkiExt(AuthorityKeyIdentifier(PublicKey(issuer_key)))]

\* CertificateBuilder()...sign(private_key=root_key, algorithm=SHA256())
BuildCertificate(subject, public_key, serial, not_before, not_after) ==
    LET ext == EndEntityExtensions(public_key, root_key) IN
    [subject |-> subject,
     issuer |-> root_cert.subject,
     public_key |-> public_key,
     serial_number |-> serial,
     not_valid_before |-> not_before,
     not_valid_after |-> not_after,
     basic_constraints |-> ext.basic_constraints,
     key_usage |-> ext.key_usage,
     extended_key_usage |-> ext.extended_key_usage,
     subject_key_identifier |-> ext.subject_key_identifier,
     authority_key_identifier |-> ext.authority_key_identifier,
     signed_by |-> PublicKey(root_key)]

(***************************************************************************)
(* Start-up: the module-level code of server.py                            *)
(***************************************************************************)
\* the missing exit(1): a missing file is reported and start-up goes on
LoadOutcomeNoExit(files) ==
    IF files.crt.file = "garbage" \/ files.key.file = "garbage"
    THEN "crashed" ELSE "root_loaded"

\* server.py:53-73: how the try block around the two open() calls ends.
\* A missing file is FileNotFoundError -> exit(1); a file that does not
\* parse raises ValueError, which no handler catches.
LoadOutcome(files) ==
    IF files.crt.file = "missing" THEN "exited"
    ELSE IF files.crt.file = "garbage" THEN "crashed"
    ELSE IF files.key.file = "missing" THEN "exited"
    ELSE IF files.key.file = "garbage" THEN "crashed"
    ELSE "root_loaded"

\* what open() and load_pem_* give for a file that was read
Loaded(f, unset) == IF f.file = "pem" THEN f.content ELSE unset

\* server.py:60-65: the BasicConstraints check only prints
RootWarnings(cert) ==
    IF cert = None THEN {}
    ELSE IF ~cert.basic_constraints.present THEN {"missing BasicConstraints"}
    ELSE IF ~cert.basic_constraints.ca THEN {"not ca=True"}
    ELSE {}

LoadRootCA ==
    /\ phase = "boot"
    /\ phase' = LoadOutcome(certFiles)
    /\ IF phase' = "root_loaded"
       THEN /\ root_cert' = Loaded(certFiles.crt, None)
            /\ root_key' = Loaded(certFiles.key, "none")
            /\ warnings' = RootWarnings(root_cert')
       ELSE UNCHANGED <<root_cert, root_key, warnings>>
    /\ UNCHANGED <<certFiles, gateway_key, gateway_cert, gateway_chain_pem,
                   trust_anchors, signResp, req, fs>>

\* server.py:80-121
GenerateGateway ==
    /\ phase = "root_loaded"
    /\ \E k \in GatewayKeys, serial \in Serials, t1 \in Times, t2 \in Times :
         /\ t1 <= t2    \* two successive readings of the clock
         /\ gateway_key' = k
         /\ gateway_cert' =
              BuildCertificate(GatewaySubject, PublicKey(k), serial,
                               t1 - SkewMinutes,
                               t2 + ValidityDays * MinutesPerDay)
    /\ gateway_chain_pem' = <<Pem(gateway_cert'), Pem(root_cert)>>
    /\ phase' = "gateway_ready"
    /\ UNCHANGED <<certFiles, root_cert, root_key, warnings, trust_anchors,
                   signResp, req, fs>>

\* server.py:129-136, then uvicorn.run (server.py:410-413)
ConfigureTrust ==
    /\ phase = "gateway_ready"
    /\ trust_anchors' = {Pem(root_cert)}
    /\ phase' = "serving"
    /\ UNCHANGED <<certFiles, root_cert, root_key, warnings, gateway_key,
                   gateway_cert, gateway_chain_pem, signResp, req, fs>>

(***************************************************************************)
(* POST /api/v1/certificates/sign (server.py:161-242)                      *)
(***************************************************************************)
\* what a client can send as req.csr: text that is no PEM CSR, a CSR whose
\* key the library cannot extract, or a well-formed CSR
CsrInputs ==
    {[parses |-> FALSE]}
    \cup {[parses |-> TRUE, key_ok |-> FALSE, subject |-> s] :
             s \in DeviceSubjects}
    \cup {[parses |-> TRUE, key_ok |-> TRUE, subject |-> s,
           public_key |-> PublicKey(k)] :
             s \in DeviceSubjects, k \in DeviceKeys}

\* raise HTTPException(status_code=..., detail=...)
HTTPException(status, detail) ==
    [kind |-> "HTTPException", status_code |-> status, detail |-> detail]

\* server.py:240-242: every exception of the handler body
SignErrorStatus(stage) == 500

\* the handler gets as far as a signed certificate
Issues(csr, sign_ok) == csr.parses /\ csr.key_ok /\ sign_ok

\* the whole handler; sign_ok is whether builder.sign() returns
sign_csr(csr, serial, now, sign_ok) ==
    IF ~csr.parses
    THEN HTTPException(SignErrorStatus("load_pem_x509_csr"), "csr does not parse")
    ELSE IF ~csr.key_ok
    THEN HTTPException(SignErrorStatus("public_key"), "unsupported public key")
    ELSE IF ~sign_ok
    THEN HTTPException(SignErrorStatus("sign"), "signing failed")
    ELSE
      LET valid_from == now - SkewMinutes
          valid_to == valid_from + ValidityDays * MinutesPerDay
          certificate == BuildCertificate(csr.subject, csr.public_key, serial,
                                          valid_from, valid_to)
      IN [kind |-> "SigningResponse",
          status_code |-> 200,
          certificate_chain |-> <<Pem(certificate), Pem(root_cert)>>,
          certificate_id |-> "uuid4",
          serial_number |-> DecimalString(certificate.serial_number),
          expires_at |-> IsoFormat(valid_to)]

SignCsr ==
    /\ phase = "serving"
    /\ \E csr \in CsrInputs, sign_ok \in BOOLEAN :
         \* the serial and the clock are read only on the way to a certificate
         \E serial \in IF Issues(csr, sign_ok) THEN Serials ELSE {1},
            now \in IF Issues(csr, sign_ok) THEN Times ELSE {0} :
           signResp' = [request |-> csr,
                        response |-> sign_csr(csr, serial, now, sign_ok)]
    /\ UNCHANGED <<certFiles, phase, root_cert, root_key, warnings,
                   gateway_key, gateway_cert, gateway_chain_pem,
                   trust_anchors, req, fs>>

(***************************************************************************)
(* POST /api/v1/publish (server.py:248-407)                                *)
(***************************************************************************)
\* the devices that upload; each signs with its own certificate and embeds
\* its own metadata
Signers == {"devA", "devB"}
\* the photograph a device uploads: each device its own
Pixels(signer) == <<"photo", signer>>

Exif(signer) == [camera_serial |-> signer, gps |-> "location"]

\* the manifests list of a store: empty, or one manifest naming its signer
ManifestLists(signer) == {<<>>, <<[signature_info |-> signer]>>}

\* What c2pa.Reader(...).json() gives for an uploaded file: it raises
\* (readable = FALSE), or it returns a store in which the "manifests" and
\* "validation_status" keys are each absent, an empty list or a list.
UnreadableStore ==
    [readable |-> FALSE, has_manifests |-> FALSE, manifests |-> <<>>,
     has_validation_status |-> FALSE, validation_status |-> <<>>]

ManifestStores(signer) ==
    {UnreadableStore} \cup
    { [readable |-> TRUE, has_manifests |-> m[1], manifests |-> m[2],
       has_validation_status |-> v[1], validation_status |-> v[2]] :
        m \in {<<FALSE, <<>> >>} \cup {<<TRUE, l>> : l \in ManifestLists(signer)},
        v \in {<<FALSE, <<>> >>, <<TRUE, <<>> >>,
               <<TRUE, <<"signingCredential.untrusted">> >>} }

\* the bytes of an upload: pixels, the device's metadata, its C2PA store
Uploads ==
    UNION { { [pixels |-> Pixels(s), exif |-> Exif(s), store |-> st] :
                st \in ManifestStores(s) } : s \in Signers }

NoDir == [exists |-> FALSE]
\* a directory mkdtemp has just made; made_by tells one directory from a
\* later one of the same name
EmptyDir(r) == [exists |-> TRUE, made_by |-> r, files |-> {}, input |-> None,
                clean |-> None, published |-> None]

IdleRequest ==
    [pc |-> "idle", temp_dir |-> 0, upload |-> None, steps |-> <<>>,
     outcome |-> None, rmtree |-> "not run", response |-> None]

\* the validation stage without step 2b: validation errors are not looked at
ValidateNoStatusCheck(manifest_store) ==
    IF ~manifest_store.readable
    THEN HTTPException(400, "Cannot read C2PA manifest from uploaded image")
    ELSE IF ~manifest_store.has_manifests \/ manifest_store.manifests = <<>>
    THEN HTTPException(400, "Rejected: no C2PA manifests found in the uploaded image.")
    ELSE [kind |-> "ok"]

\* the validation stage with one status for every rejection
ValidateAllForbidden(manifest_store) ==
    IF ~manifest_store.readable
       \/ ~manifest_store.has_manifests \/ manifest_store.manifests = <<>>
       \/ manifest_store.has_validation_status
    THEN HTTPException(403, "Rejected")
    ELSE [kind |-> "ok"]

\* the validation stage that looks at the truth value of validation_status:
\* a key with an empty list passes
ValidateTruthyStatus(manifest_store) ==
    IF ~manifest_store.readable
    THEN HTTPException(400, "Cannot read C2PA manifest from uploaded image")
    ELSE IF ~manifest_store.has_manifests \/ manifest_store.manifests = <<>>
    THEN HTTPException(400, "Rejected: no C2PA manifests found in the uploaded image.")
    ELSE IF manifest_store.has_validation_status
            /\ manifest_store.validation_status # <<>>
    THEN HTTPException(403, <<"Rejected: C2PA validation failed",
                              manifest_store.validation_status>>)
    ELSE [kind |-> "ok"]

\* server.py:274-301: the validation stage on the parsed store; the result
\* is "ok" or the HTTPException raised
Validate(manifest_store) ==
    IF ~manifest_store.readable
    THEN HTTPException(400, "Cannot read C2PA manifest from uploaded image")
    ELSE IF ~manifest_store.has_manifests \/ manifest_store.manifests = <<>>
    THEN HTTPException(400, "Rejected: no C2PA manifests found in the uploaded image.")
    ELSE IF manifest_store.has_validation_status
    THEN HTTPException(403, <<"Rejected: C2PA validation failed",
                              manifest_store.validation_status>>)
    ELSE [kind |-> "ok"]

\* server.py:315-328: Pillow decodes and re-encodes the pixels only
StripMetadata(image) == [pixels |-> image.pixels]

\* server.py:335-368
gateway_manifest(timestamp) ==
    [claim_generator |-> "imanmontajabi.com/1.0",
     title |-> "imanmontajabi.com",
     assertions |->
        << [label |-> "c2pa.actions",
            data |-> [action |-> "c2pa.published",
                      softwareAgent |-> "imanmontajabi.com/1.0",
                      when |-> timestamp]],
           [label |-> "stds.schema-org.CreativeWork",
            data |-> [author |-> "imanmontajabi.com"]] >>,
     ingredients |-> <<>>]

\* the signing callback with the trust root's key in place of the gateway's
gateway_sign_callbackWithRootKey(data) ==
    [signed |-> data, verifies_with |-> PublicKey(root_key)]

\* server.py:140-142
gateway_sign_callback(data) ==
    [signed |-> data, verifies_with |-> PublicKey(gateway_key)]

\* server.py:375-385: builder.sign_file(clean_path, output_path, signer)
SignFile(clean, manifest) ==
    [pixels |-> clean.pixels,
     manifest |-> manifest,
     certs |-> gateway_chain_pem,
     signature |-> gateway_sign_callback(manifest)]

\* server.py:393-399
Response(content) ==
    [kind |-> "Response", status_code |-> 200, content |-> content]

\* a non-HTTP exception raised inside the try block
PyException(stage) == [kind |-> "Exception", detail |-> stage]

\* the except clauses without "except HTTPException: raise"
TranslateWithoutReraise(exc) == HTTPException(500, exc.detail)

\* server.py:401-405: what the except clauses make of a raised exception
Translate(exc) ==
    IF exc.kind = "HTTPException" THEN exc
    ELSE HTTPException(500, exc.detail)

\* an exception that leaves the handler without the finally clause
RaiseNoFinally(q, step, exc) ==
    [q EXCEPT !.pc = "done", !.steps = Append(@, step),
              !.response = Translate(exc)]

\* a failed step that is tried again instead of being given up
RaiseAndStay(q, step, exc) == [q EXCEPT !.outcome = exc]

\* the request's record with one more executed step and a pending outcome
Raise(q, step, exc) ==
    [q EXCEPT !.pc = "finally", !.steps = Append(@, step), !.outcome = exc]

\* one scratch path for every request
mkdtempFixed == CHOOSE d \in Dirs : \A e \in Dirs : d <= e

\* tempfile.mkdtemp: a name no directory has yet (which of the free names
\* is immaterial: the first)
mkdtemp == CHOOSE d \in Dirs : ~fs[d].exists /\ \A e \in 1..(d - 1) : fs[e].exists

\* server.py:264: mkdtemp creates the directory; it raises, outside the try
\* block, when no name is free
Start(r) ==
    /\ phase = "serving"
    /\ req[r].pc = "idle"
    /\ IF \E d \in Dirs : ~fs[d].exists
       THEN LET d == mkdtemp IN
              /\ fs' = [fs EXCEPT ![d] = EmptyDir(r)]
              /\ req' = [req EXCEPT ![r].pc = "save", ![r].temp_dir = d,
                                    ![r].steps = <<"mkdtemp">>]
       ELSE /\ req' = [req EXCEPT ![r].pc = "done",
                          ![r].steps = <<"mkdtemp failed">>,
                          ![r].response = [kind |-> "unhandled",
                                           status_code |-> 500]]
            /\ UNCHANGED fs
    /\ UNCHANGED <<certFiles, phase, identity, warnings, signResp>>

\* server.py:267-271: the upload is read and written to input.jpg
Save(r) ==
    /\ req[r].pc = "save"
    /\ \E upload \in Uploads, ok \in BOOLEAN :
         IF ok
         THEN /\ fs' = [fs EXCEPT ![req[r].temp_dir].input = upload,
                                  ![req[r].temp_dir].files = @ \cup {"input.jpg"}]
              /\ req' = [req EXCEPT ![r].pc = "validate", ![r].upload = upload,
                                    ![r].steps = Append(@, "received")]
         ELSE /\ req' = [req EXCEPT ![r] =
                           Raise(@, "save failed", PyException("save"))]
              /\ UNCHANGED fs
    /\ UNCHANGED <<certFiles, phase, identity, warnings, signResp>>

\* server.py:274-304: the Validator, on the file the request saved
Validator(r) ==
    /\ req[r].pc = "validate"
    /\ LET verdict == Validate(fs[req[r].temp_dir].input.store) IN
         req' = [req EXCEPT ![r] =
                   IF verdict.kind = "ok"
                   THEN [@ EXCEPT !.pc = "strip",
                                  !.steps = Append(@, "validated")]
                   ELSE Raise(@, "validation failed", verdict)]
    /\ UNCHANGED <<certFiles, phase, identity, warnings, signResp, fs>>

\* the Redactor placed before the Validator
RedactorEarly(r) ==
    /\ req[r].pc \in {"validate", "strip"}
    /\ fs' = [fs EXCEPT
         ![req[r].temp_dir].clean = StripMetadata(fs[req[r].temp_dir].input),
         ![req[r].temp_dir].files = @ \cup {"clean.jpg"}]
    /\ req' = [req EXCEPT ![r].pc = "sign",
                          ![r].steps = Append(@, "redacted")]
    /\ UNCHANGED <<certFiles, phase, identity, warnings, signResp>>

\* server.py:315-331: the Redactor; Image.open, exif_transpose or save raise
Redactor(r) ==
    /\ req[r].pc = "strip"
    /\ \E ok \in BOOLEAN :
         IF ok
         THEN /\ fs' = [fs EXCEPT
                   ![req[r].temp_dir].clean = StripMetadata(fs[req[r].temp_dir].input),
                   ![req[r].temp_dir].files = @ \cup {"clean.jpg"}]
              /\ req' = [req EXCEPT ![r].pc = "sign",
                                    ![r].steps = Append(@, "redacted")]
         ELSE /\ req' = [req EXCEPT ![r] =
                           Raise(@, "redaction failed", PyException("codec"))]
              /\ UNCHANGED fs
    /\ UNCHANGED <<certFiles, phase, identity, warnings, signResp>>

\* the Re-signer with the uploaded file added as an ingredient
ResignerWithIngredient(r) ==
    /\ req[r].pc = "sign"
    /\ \E timestamp \in Times :
         fs' = [fs EXCEPT
            ![req[r].temp_dir].published =
                SignFile(fs[req[r].temp_dir].clean,
                         [gateway_manifest(timestamp) EXCEPT
                            !.ingredients =
                                fs[req[r].temp_dir].input.store.manifests]),
            ![req[r].temp_dir].files = @ \cup {"published.jpg"}]
    /\ req' = [req EXCEPT ![r].pc = "return",
                          ![r].steps = Append(@, "resigned")]
    /\ UNCHANGED <<certFiles, phase, identity, warnings, signResp>>

\* the Re-signer that makes itself a new signing key for each request
ResignerFreshIdentity(r) ==
    /\ req[r].pc = "sign"
    /\ \E timestamp \in Times :
         fs' = [fs EXCEPT
            ![req[r].temp_dir].published =
                SignFile(fs[req[r].temp_dir].clean, gateway_manifest(timestamp)),
            ![req[r].temp_dir].files = @ \cup {"published.jpg"}]
    /\ req' = [req EXCEPT ![r].pc = "return",
                          ![r].steps = Append(@, "resigned")]
    /\ gateway_key' = "gk2"
    /\ UNCHANGED <<certFiles, phase, root_cert, root_key, warnings,
                   gateway_cert, gateway_chain_pem, trust_anchors, signResp>>

\* the Re-signer that answers with the unsigned clean file when signing fails
ResignerFallback(r) ==
    /\ req[r].pc = "sign"
    /\ req' = [req EXCEPT ![r].pc = "finally",
                  ![r].steps = Append(@, "signing failed"),
                  ![r].outcome = Response(fs[req[r].temp_dir].clean)]
    /\ UNCHANGED <<certFiles, phase, identity, warnings, signResp, fs>>

\* server.py:334-385: the Re-signer; Signer.from_callback or sign_file raise
Resigner(r) ==
    /\ req[r].pc = "sign"
    /\ \E ok \in BOOLEAN, timestamp \in Times :
         IF ok
         THEN /\ fs' = [fs EXCEPT
                   ![req[r].temp_dir].published =
                       SignFile(fs[req[r].temp_dir].clean,
                                gateway_manifest(timestamp)),
                   ![req[r].temp_dir].files = @ \cup {"published.jpg"}]
              /\ req' = [req EXCEPT ![r].pc = "return",
                                    ![r].steps = Append(@, "resigned")]
         ELSE /\ req' = [req EXCEPT ![r] =
                           Raise(@, "signing failed", PyException("sign"))]
              /\ UNCHANGED fs
    /\ UNCHANGED <<certFiles, phase, identity, warnings, signResp>>

\* server.py:388-399: the signed file is read back and returned
Return(r) ==
    /\ req[r].pc = "return"
    /\ \E ok \in BOOLEAN :
         req' = [req EXCEPT ![r] =
                   IF ok
                   THEN [@ EXCEPT !.pc = "finally",
                           !.steps = Append(@, "returned"),
                           !.outcome = Response(fs[req[r].temp_dir].published)]
                   ELSE Raise(@, "read failed", PyException("read"))]
    /\ UNCHANGED <<certFiles, phase, identity, warnings, signResp, fs>>

\* shutil.rmtree(path, ignore_errors=True): the tree is removed, or the
\* removal fails and the error is swallowed
Rmtree(dir, removed) == IF removed THEN NoDir ELSE dir

\* server.py:401-407: the except clauses, then the finally clause, then the
\* response or the exception leaves the handler
Finally(r) ==
    /\ req[r].pc = "finally"
    /\ \E removed \in BOOLEAN :
         /\ fs' = [fs EXCEPT ![req[r].temp_dir] = Rmtree(@, removed)]
         /\ req' = [req EXCEPT
                ![r].pc = "done",
                ![r].rmtree = IF removed THEN "removed" ELSE "failed",
                ![r].response = IF req[r].outcome.kind = "Response"
                                THEN req[r].outcome
                                ELSE Translate(req[r].outcome)]
    /\ UNCHANGED <<certFiles, phase, identity, warnings, signResp>>

(***************************************************************************)
(* The specifications                                                      *)
(***************************************************************************)
InitProcess ==
    /\ phase = "boot"
    /\ root_cert = None
    /\ root_key = "none"
    /\ warnings = {}
    /\ gateway_key = "none"
    /\ gateway_cert = None
    /\ gateway_chain_pem = <<>>
    /\ trust_anchors = {}
    /\ signResp = None
    /\ req = [r \in Reqs |-> IdleRequest]
    /\ fs = [d \in Dirs |-> NoDir]

\* cert_key/ holds anything
Init ==
    /\ certFiles \in CertFileStates
    /\ InitProcess

\* cert_key/ holds what generate_root_ca.py wrote
InitGenerated ==
    /\ certFiles = [crt |-> PemFile(generate("rk1", 1, 0)), key |-> PemFile("rk1")]
    /\ InitProcess

Startup ==
    \/ LoadRootCA
    \/ GenerateGateway
    \/ ConfigureTrust

Publish(r) ==
    \/ Start(r)
    \/ Save(r)
    \/ Validator(r)
    \/ Redactor(r)
    \/ Resigner(r)
    \/ Return(r)
    \/ Finally(r)

\* the whole server with one publishing client, from any cert_key/
Next ==
    \/ Startup
    \/ SignCsr
    \/ Publish("r1")

Spec == Init /\ [][Next]_vars

\* the whole server with one publishing client, from a generated root
SpecServer == InitGenerated /\ [][Next]_vars

\* the certificate authority alone, from any cert_key/
NextCA ==
    \/ Startup
    \/ SignCsr

SpecCA == Init /\ [][NextCA]_vars

\* the gateway alone with concurrent publish requests, from a generated root
NextGateway ==
    \/ Startup
    \/ \E r \in Reqs : Publish(r)

SpecGateway == InitGenerated /\ [][NextGateway]_vars

\* the steps of publish_photo after its directory is made
Handler(r) ==
    \/ Save(r)
    \/ Validator(r)
    \/ Redactor(r)
    \/ Resigner(r)
    \/ Return(r)
    \/ Finally(r)

\* the gateway alone with one publishing client, from a generated root
NextPublish ==
    \/ Startup
    \/ Publish("r1")

\* every library call returns or raises, and the event loop resumes the
\* handler: a started request is not left waiting for ever
SpecPublishFair ==
    /\ InitGenerated
    /\ [][NextPublish]_vars
    /\ WF_vars(Handler("r1"))

(***************************************************************************)
(* Vocabulary of the properties                                            *)
(***************************************************************************)
Pipeline == <<"mkdtemp", "received", "validated", "redacted", "resigned",
              "returned">>

FailureSteps == {"mkdtemp failed", "save failed", "validation failed",
                 "redaction failed", "signing failed", "read failed"}

Done(r) == req[r].pc = "done"
Delivered(r) == Done(r) /\ req[r].response.kind = "Response"
Rejected(r) == Done(r) /\ req[r].response.kind # "Response"
Has(r, step) == \E i \in 1..Len(req[r].steps) : req[r].steps[i] = step
LastStep(r) == req[r].steps[Len(req[r].steps)]
ErrorPath(r) == Len(req[r].steps) > 0 /\ LastStep(r) \in FailureSteps

\* the store the Validator parsed for request r
Parsed(r) == Has(r, "received") /\ req[r].upload.store.readable
StoreOf(r) == req[r].upload.store
ZeroManifests(store) == ~store.has_manifests \/ store.manifests = <<>>

\* the scratch directory request r made is still there
ScratchExists(r) == \E d \in Dirs : fs[d].exists /\ fs[d].made_by = r

(***************************************************************************)
(* C1  Fail-closed validation: a request whose parsed manifest store has   *)
(* zero manifests or a non-empty validation-status list never reaches the  *)
(* Redactor (no clean file is written for it) and ends rejected.           *)
(***************************************************************************)
FailClosedValidation ==
    \A r \in Reqs :
        (/\ Parsed(r)
         /\ \/ ZeroManifests(StoreOf(r))
            \/ StoreOf(r).validation_status # <<>>)
        => /\ ~Has(r, "validated")
           /\ ~Has(r, "redacted") /\ ~Has(r, "redaction failed")
           /\ req[r].pc \notin {"strip", "sign", "return"}
           /\ \A d \in Dirs :
                fs[d].exists /\ fs[d].made_by = r => fs[d].clean = None
           /\ req[r].outcome = None \/ req[r].outcome.kind = "HTTPException"
           /\ Done(r) => req[r].response.kind = "HTTPException"

\* a request with a manifest and validation errors has been rejected
RejectedForValidationStatus ==
    \E r \in Reqs :
        /\ Done(r) /\ Parsed(r)
        /\ ~ZeroManifests(StoreOf(r))
        /\ StoreOf(r).validation_status # <<>>
        /\ req[r].response.kind = "HTTPException"

(***************************************************************************)
(* C2  Anonymization: the manifest of every delivered artifact has no      *)
(* ingredient, exactly the two gateway assertions and the gateway chain    *)
(* (gateway end-entity + root), and nothing else of the upload but its     *)
(* pixels; any two delivered artifacts have the same manifest apart from   *)
(* the timestamp and the same chain, whatever their signers and metadata.  *)
(***************************************************************************)
WithoutTimestamp(manifest) ==
    [manifest EXCEPT !.assertions[1].data.when = 0]

Anonymization ==
    /\ \A r \in Reqs :
         Delivered(r) =>
           LET out == req[r].response.content IN
             /\ DOMAIN out = {"pixels", "manifest", "certs", "signature"}
             /\ out.pixels = req[r].upload.pixels
             /\ out.manifest.ingredients = <<>>
             /\ WithoutTimestamp(out.manifest) = gateway_manifest(0)
             /\ out.certs = <<Pem(gateway_cert), Pem(root_cert)>>
             /\ gateway_cert.subject = GatewaySubject
             /\ gateway_cert.public_key = PublicKey(gateway_key)
             /\ out.signature.verifies_with = PublicKey(gateway_key)
    /\ \A r1 \in Reqs, r2 \in Reqs :
         Delivered(r1) /\ Delivered(r2) =>
           LET o1 == req[r1].response.content
               o2 == req[r2].response.content
           IN /\ o1.manifest.ingredients = o2.manifest.ingredients
              /\ WithoutTimestamp(o1.manifest) = WithoutTimestamp(o2.manifest)
              /\ o1.certs = o2.certs

\* two artifacts of different signers and different metadata were delivered
TwoSignersDelivered ==
    \E r1 \in Reqs, r2 \in Reqs :
        /\ Delivered(r1) /\ Delivered(r2)
        /\ StoreOf(r1).manifests # StoreOf(r2).manifests
        /\ req[r1].upload.exif # req[r2].upload.exif

(***************************************************************************)
(* C3  Strict sequencing: in the steps a request has executed, validation  *)
(* comes right after the upload was received, the Redactor right after a   *)
(* successful validation, the Re-signer right after a successful           *)
(* redaction, the read of the output right after a successful signing;     *)
(* bytes are handed to the caller only after the whole pipeline.           *)
(***************************************************************************)
After(step, before, s, i) ==
    s[i] \in step => i > 1 /\ s[i - 1] = before

StrictSequencing ==
    \A r \in Reqs :
        LET s == req[r].steps IN
        /\ \A i \in 1..Len(s) :
             /\ After({"received", "save failed"}, "mkdtemp", s, i)
             /\ After({"validated", "validation failed"}, "received", s, i)
             /\ After({"redacted", "redaction failed"}, "validated", s, i)
             /\ After({"resigned", "signing failed"}, "redacted", s, i)
             /\ After({"returned", "read failed"}, "resigned", s, i)
        /\ req[r].outcome # None /\ req[r].outcome.kind = "Response"
             => s = Pipeline
        /\ Delivered(r) => s = Pipeline

\* a request went through the whole pipeline
SomeDelivered == \E r \in Reqs : Delivered(r)

(***************************************************************************)
(* C4  No partial output: a request that ended on an error path answers    *)
(* with a rejection that carries no artifact bytes.                        *)
(***************************************************************************)
NoPartialOutput ==
    \A r \in Reqs :
        Done(r) /\ ErrorPath(r) =>
            /\ req[r].response.kind \in {"HTTPException", "unhandled"}
            /\ "content" \notin DOMAIN req[r].response
            /\ req[r].response.status_code \in 400..599

\* a request whose signing failed has been answered
SigningFailureAnswered ==
    \E r \in Reqs :
        /\ Done(r) /\ LastStep(r) = "signing failed"
        /\ req[r].response.kind = "HTTPException"
        /\ req[r].response.status_code = 500

(***************************************************************************)
(* C5  Scratch cleanup.  As claimed: once a request that made a scratch    *)
(* directory has finished, the directory and its files are gone.           *)
(***************************************************************************)
ScratchAlwaysRemoved ==
    \A r \in Reqs :
        Done(r) /\ req[r].temp_dir # 0 => ~ScratchExists(r)

(***************************************************************************)
(* C5 as amended: on every exit path of a request that made a scratch      *)
(* directory the removal has been run once before the request finishes,    *)
(* and the directory with all its files is gone unless the removal itself  *)
(* failed (its errors are ignored); until then the directory is the        *)
(* request's own.                                                          *)
(***************************************************************************)
ScratchRemovalAttempted ==
    \A r \in Reqs :
        /\ Done(r) /\ req[r].temp_dir # 0 =>
             /\ req[r].rmtree \in {"removed", "failed"}
             /\ req[r].rmtree = "removed" => ~ScratchExists(r)
             /\ req[r].rmtree = "failed" => ScratchExists(r)
        /\ ~Done(r) /\ req[r].temp_dir # 0 =>
             /\ req[r].rmtree = "not run"
             /\ fs[req[r].temp_dir].exists
             /\ fs[req[r].temp_dir].made_by = r

\* a rejected request whose scratch directory has been removed
RejectedAndCleaned ==
    \E r \in Reqs :
        /\ Done(r) /\ req[r].temp_dir # 0
        /\ req[r].response.kind = "HTTPException"
        /\ req[r].rmtree = "removed"
        /\ ~ScratchExists(r)

(***************************************************************************)
(* C6  Rejection category.  As claimed: zero manifests and validation-     *)
(* status entries are both rejected as forbidden; an unreadable manifest   *)
(* is a client error and a signing failure a server error.                 *)
(***************************************************************************)
RejectionCategoryUniform ==
    \A r \in Reqs :
        Done(r) /\ Has(r, "received") =>
            /\ LastStep(r) = "validation failed" /\ StoreOf(r).readable
                 => req[r].response.status_code = 403
            /\ LastStep(r) = "validation failed" /\ ~StoreOf(r).readable
                 => req[r].response.status_code \in 400..499
            /\ LastStep(r) = "signing failed"
                 => req[r].response.status_code \in 500..599

(***************************************************************************)
(* C6 as amended: both are rejected, but not alike: zero manifests is a    *)
(* client error (400), and only a store with a manifest and a              *)
(* validation_status key is forbidden (403); an unreadable manifest is a   *)
(* client error (400) and a signing failure a server error (500).          *)
(***************************************************************************)
RejectionCategory ==
    \A r \in Reqs :
        Done(r) /\ Has(r, "received") =>
            /\ StoreOf(r).readable /\ ZeroManifests(StoreOf(r))
                 => /\ LastStep(r) = "validation failed"
                    /\ req[r].response.status_code = 400
            /\ (StoreOf(r).readable /\ ~ZeroManifests(StoreOf(r))
                /\ StoreOf(r).has_validation_status)
                 => /\ LastStep(r) = "validation failed"
                    /\ req[r].response.status_code = 403
            /\ ~StoreOf(r).readable
                 => /\ LastStep(r) = "validation failed"
                    /\ req[r].response.status_code = 400
            /\ LastStep(r) = "signing failed"
                 => req[r].response.status_code = 500

\* a request without manifests has been rejected
RejectedForNoManifests ==
    \E r \in Reqs :
        /\ Done(r) /\ Parsed(r) /\ ZeroManifests(StoreOf(r))
        /\ LastStep(r) = "validation failed"

(***************************************************************************)
(* C7  No issued certificate can issue: every end-entity certificate the   *)
(* process has made (the one sign_csr returns, the gateway's) carries      *)
(* BasicConstraints critical with ca false and KeyUsage critical with      *)
(* digitalSignature alone, so without keyCertSign.                         *)
(***************************************************************************)
Issued(resp) ==
    resp # None /\ resp.response.kind = "SigningResponse"

IssuedCertificate == signResp.response.certificate_chain[1].pem

EndEntityCertificates ==
    (IF Issued(signResp) THEN {IssuedCertificate} ELSE {})
    \cup (IF gateway_cert # None THEN {gateway_cert} ELSE {})

EndEntityCannotIssue ==
    \A c \in EndEntityCertificates :
        /\ c.basic_constraints.present
        /\ c.basic_constraints.critical
        /\ ~c.basic_constraints.ca
        /\ c.key_usage.present
        /\ c.key_usage.critical
        /\ "key_cert_sign" \notin c.key_usage.bits
        /\ c.key_usage.bits = {"digital_signature"}

\* a device certificate and the gateway certificate have been made
BothCertificatesIssued ==
    /\ Issued(signResp)
    /\ gateway_cert # None
    /\ IssuedCertificate # gateway_cert

(***************************************************************************)
(* C8  For every root certificate and key the process starts with, the     *)
(* issued certificate's issuer is the root certificate's subject and its   *)
(* AuthorityKeyIdentifier is the root certificate's SubjectKeyIdentifier.  *)
(***************************************************************************)
IssuerLinksToTrustRoot ==
    Issued(signResp) =>
        /\ IssuedCertificate.issuer = root_cert.subject
        /\ IssuedCertificate.authority_key_identifier.present
        /\ root_cert.subject_key_identifier.present
        /\ IssuedCertificate.authority_key_identifier.key_identifier
             = root_cert.subject_key_identifier.digest

(***************************************************************************)
(* C9  Start-up.  As claimed: no sign or publish request is served unless  *)
(* the loaded Trust Root satisfies the root invariant.                     *)
(***************************************************************************)
Served == signResp # None \/ \E r \in Reqs : req[r].pc # "idle"

StartupFailClosed ==
    Served => root_cert # None /\ RootInvariant(root_cert)

(***************************************************************************)
(* C9 as amended: no request is served before start-up has finished, and   *)
(* start-up goes past the loading of the root only when both root files    *)
(* were there and parsed, the root being what they hold; a missing file    *)
(* ends the process.  A root without BasicConstraints or with ca false is  *)
(* warned about and served with all the same; KeyUsage and the             *)
(* SubjectKeyIdentifier are not looked at.                                 *)
(***************************************************************************)
StartupRequiresRootFiles ==
    /\ Served => phase = "serving"
    /\ phase \in {"root_loaded", "gateway_ready", "serving"} =>
         /\ certFiles.crt.file = "pem"
         /\ certFiles.key.file = "pem"
         /\ root_cert = certFiles.crt.content
         /\ root_key = certFiles.key.content
         /\ (warnings # {}) =
              (~root_cert.basic_constraints.present
               \/ ~root_cert.basic_constraints.ca)
    /\ phase = "exited" =>
         certFiles.crt.file = "missing" \/ certFiles.key.file = "missing"
    /\ phase = "crashed" =>
         certFiles.crt.file = "garbage" \/ certFiles.key.file = "garbage"

\* requests are being served by a process whose root violates the invariant
ServedWithDegradedRoot ==
    /\ signResp # None
    /\ req["r1"].pc = "done"
    /\ ~RootInvariant(root_cert)

(***************************************************************************)
(* C10  Issuance error classification: a CSR that does not parse or whose  *)
(* key cannot be extracted is answered with a client error, distinct from  *)
(* the server error of a failed signing operation; no certificate is       *)
(* returned in either case.                                                *)
(***************************************************************************)
RequestMalformed(csr) == ~csr.parses \/ ~csr.key_ok

SignErrorClassification ==
    signResp # None =>
        /\ RequestMalformed(signResp.request) =>
             /\ signResp.response.kind = "HTTPException"
             /\ signResp.response.status_code \in 400..499
        /\ signResp.response.kind = "HTTPException" =>
             "certificate_chain" \notin DOMAIN signResp.response
        /\ signResp.response.status_code \in 500..599 =>
             ~RequestMalformed(signResp.request)

(***************************************************************************)
(* C11  Validity window: every end-entity certificate, the gateway's as    *)
(* the devices', is valid from five minutes before a reading of the clock  *)
(* for exactly 365 days, and expires_at of the sign response is the        *)
(* not-after of the certificate it returns.                                *)
(***************************************************************************)
ValidityWindow ==
    /\ \A c \in EndEntityCertificates :
         /\ \E now \in Times : c.not_valid_before = now - SkewMinutes
         /\ c.not_valid_after = c.not_valid_before + ValidityDays * MinutesPerDay
         /\ c.not_valid_after - c.not_valid_before = ValidityDays * MinutesPerDay
    /\ Issued(signResp) =>
         signResp.response.expires_at = IsoFormat(IssuedCertificate.not_valid_after)

(***************************************************************************)
(* C12  Shared identities are read-only: the trust root, the gateway       *)
(* identity and the trust configuration are all set before the first       *)
(* request is served, each is set once, and no step of a sign or publish   *)
(* request, successful or not, changes them, the files of cert_key/ or the *)
(* start-up state; a certificate is issued from its own request and the    *)
(* trust root alone.                                                       *)
(***************************************************************************)
Initialised ==
    /\ phase = "serving"
    /\ root_cert # None
    /\ root_key # "none"
    /\ gateway_key # "none"
    /\ gateway_cert # None
    /\ gateway_chain_pem = <<Pem(gateway_cert), Pem(root_cert)>>
    /\ trust_anchors = {Pem(root_cert)}

RequestStep == signResp' # signResp \/ req' # req \/ fs' # fs

IdentityFrame ==
    /\ RequestStep =>
         /\ Initialised
         /\ identity' = identity
         /\ <<certFiles, phase, warnings>>' = <<certFiles, phase, warnings>>
    /\ root_cert # None => <<root_cert, root_key>>' = <<root_cert, root_key>>
    /\ gateway_cert # None =>
         <<gateway_key, gateway_cert, gateway_chain_pem>>' =
             <<gateway_key, gateway_cert, gateway_chain_pem>>
    /\ trust_anchors # {} => identity' = identity
    /\ (signResp' # signResp /\ Issued(signResp')) =>
         LET csr == signResp'.request
             cert == signResp'.response.certificate_chain[1].pem
         IN /\ cert.subject = csr.subject
            /\ cert.public_key = csr.public_key
            /\ cert.issuer = root_cert.subject
            /\ cert.signed_by = PublicKey(root_key)
            /\ signResp'.response.certificate_chain[2] = Pem(root_cert)
            /\ cert.serial_number \in Serials
            /\ cert.not_valid_before + SkewMinutes \in Times
            /\ signResp'.response =
                 sign_csr(csr, cert.serial_number,
                          cert.not_valid_before + SkewMinutes, TRUE)

SharedIdentitiesReadOnly == [](Served => Initialised) /\ [][IdentityFrame]_vars

\* a certificate has been issued and a publish request delivered
IdentitiesAfterRequests ==
    /\ Initialised
    /\ Issued(signResp)
    /\ Delivered("r1")

(***************************************************************************)
(* C13  Request isolation: however concurrent publish requests interleave, *)
(* a request in flight has a scratch directory of its own that holds what  *)
(* it wrote there itself; a step of one request touches no directory but   *)
(* that request's own and leaves the other requests as they are; and the   *)
(* answer a request gets is one of those it could get for its upload had   *)
(* it run alone.                                                           *)
(***************************************************************************)
InFlight(r) == req[r].pc \notin {"idle", "done"}

OwnScratch ==
    /\ \A r \in Reqs : InFlight(r) =>
         LET dir == fs[req[r].temp_dir] IN
           /\ dir.exists /\ dir.made_by = r
           /\ Has(r, "received") => dir.input = req[r].upload
           /\ Has(r, "redacted") => dir.clean = StripMetadata(req[r].upload)
           /\ Has(r, "resigned") =>
                \E t \in Times :
                  dir.published = SignFile(StripMetadata(req[r].upload),
                                           gateway_manifest(t))
    /\ \A r, q \in Reqs :
         (r # q /\ InFlight(r) /\ InFlight(q)) => req[r].temp_dir # req[q].temp_dir

\* resp is an answer a request that runs alone can get for the upload
OutcomeAlone(upload, resp) ==
    LET verdict == Validate(upload.store) IN
    IF resp.kind = "Response"
    THEN /\ verdict.kind = "ok"
         /\ \E t \in Times :
              resp = Response(SignFile(StripMetadata(upload), gateway_manifest(t)))
    ELSE /\ resp.kind = "HTTPException"
         /\ IF resp.status_code = 500
            THEN resp.detail \in {"save"} \cup (IF verdict.kind = "ok"
                                                THEN {"codec", "sign", "read"}
                                                ELSE {})
            ELSE /\ verdict.kind # "ok"
                 /\ resp.status_code = verdict.status_code
                 /\ resp.detail = verdict.detail

SameAsAlone ==
    \A r \in Reqs : (Done(r) /\ req[r].temp_dir # 0) =>
       IF req[r].upload = None
       THEN req[r].response.status_code = 500 /\ req[r].response.detail = "save"
       ELSE OutcomeAlone(req[r].upload, req[r].response)

IsolationStep ==
    /\ \A r \in Reqs : (InFlight(r) /\ req'[r] = req[r]) =>
         fs'[req[r].temp_dir] = fs[req[r].temp_dir]
    /\ \A r, q \in Reqs : (req'[r] # req[r] /\ req'[q] # req[q]) => r = q
    /\ \A d \in Dirs : fs'[d] # fs[d] =>
         \E r \in Reqs :
           /\ req'[r] # req[r]
           /\ fs[d].exists => (fs[d].made_by = r /\ req[r].temp_dir = d)
           /\ fs'[d].exists => (fs'[d].made_by = r /\ req'[r].temp_dir = d)

RequestIsolation ==
    [](OwnScratch /\ SameAsAlone) /\ [][IsolationStep]_vars

\* one request has removed its directory while the other, which started
\* beside it, has its signed file on disk and is yet to read it
CleanupBesideInFlight ==
    \E r, q \in Reqs :
      /\ Done(r) /\ req[r].rmtree = "removed" /\ req[r].temp_dir = 1
      /\ req[q].pc = "return" /\ req[q].temp_dir = 2
      /\ "published.jpg" \in fs[2].files

(***************************************************************************)
(* C14  Termination: a publish request that has started comes to an end;   *)
(* at its end it is either delivered, having been received, validated,     *)
(* redacted and re-signed in that order, or rejected with a status and a   *)
(* reason, never both; and a request at its end makes no further step.     *)
(***************************************************************************)
Terminal(r) ==
    \/ /\ Delivered(r)
       /\ ~Rejected(r)
       /\ req[r].steps = Pipeline
    \/ /\ Rejected(r)
       /\ ~Delivered(r)
       /\ ErrorPath(r)
       /\ req[r].response.status_code \in 400..599
       /\ "detail" \in DOMAIN req[r].response

PublishTerminates ==
    /\ \A r \in Reqs : (req[r].pc # "idle") ~> Done(r)
    /\ [](\A r \in Reqs : Done(r) => Terminal(r))
    /\ [][\A r \in Reqs : Done(r) => req'[r] = req[r]]_vars

\* a request has come to its end through the whole pipeline, its directory
\* removed
DeliveredAtEnd ==
    /\ Delivered("r1")
    /\ Terminal("r1")
    /\ req["r1"].rmtree = "removed"

(***************************************************************************)
(* C15  Gateway identity scoping: the process has one gateway key and one  *)
(* gateway certificate for that key; certificates, the gateway's own       *)
(* included, are signed with the trust root's key and never the gateway's; *)
(* every signed file, on disk or delivered, is signed over its manifest    *)
(* with the gateway's key, never the trust root's, and carries the         *)
(* gateway's chain; and a response holds public keys only.                 *)
(***************************************************************************)
PublicKeys == {PublicKey(k) : k \in RootKeys \cup GatewayKeys \cup DeviceKeys}

SignedByGateway(file) ==
    /\ DOMAIN file = {"pixels", "manifest", "certs", "signature"}
    /\ DOMAIN file.signature = {"signed", "verifies_with"}
    /\ file.signature.signed = file.manifest
    /\ file.signature.verifies_with = PublicKey(gateway_key)
    /\ file.signature.verifies_with # PublicKey(root_key)
    /\ file.certs = <<Pem(gateway_cert), Pem(root_cert)>>
    /\ \A i \in 1..Len(file.certs) :
         /\ file.certs[i].pem.public_key \in PublicKeys
         /\ file.certs[i].pem.signed_by \in PublicKeys

GatewayIdentityScoping ==
    /\ gateway_key \in GatewayKeys \cup {"none"}
    /\ gateway_cert # None =>
         /\ gateway_key \in GatewayKeys
         /\ gateway_key # root_key
         /\ gateway_cert.subject = GatewaySubject
         /\ gateway_cert.public_key = PublicKey(gateway_key)
         /\ gateway_cert.signed_by = PublicKey(root_key)
    /\ Issued(signResp) =>
         /\ IssuedCertificate.signed_by = PublicKey(root_key)
         /\ IssuedCertificate.signed_by # PublicKey(gateway_key)
         /\ DOMAIN signResp.response =
              {"kind", "status_code", "certificate_chain", "certificate_id",
               "serial_number", "expires_at"}
         /\ \A i \in 1..Len(signResp.response.certificate_chain) :
              /\ signResp.response.certificate_chain[i].pem.public_key \in PublicKeys
              /\ signResp.response.certificate_chain[i].pem.signed_by \in PublicKeys
    /\ \A d \in Dirs :
         (fs[d].exists /\ "published.jpg" \in fs[d].files) =>
            SignedByGateway(fs[d].published)
    /\ \A r \in Reqs :
         /\ Delivered(r) =>
              /\ DOMAIN req[r].response = {"kind", "status_code", "content"}
              /\ SignedByGateway(req[r].response.content)
         /\ Rejected(r) =>
              DOMAIN req[r].response \subseteq {"kind", "status_code", "detail"}

\* a device certificate has been issued and a signed file delivered
IssuedAndResigned ==
    /\ Issued(signResp)
    /\ IssuedCertificate.public_key # gateway_cert.public_key
    /\ Delivered("r1")
    /\ req["r1"].response.content.signature.verifies_with = PublicKey(gateway_key)

(***************************************************************************)
(* C16  Issuance response shape: a successful sign response carries a      *)
(* chain of exactly two certificates, first the one just issued to the     *)
(* request's subject and key, second the trust root's, and serial_number   *)
(* is the issued certificate's serial number written in decimal digits.    *)
(***************************************************************************)
\* int(s) for a sequence of decimal digits
RECURSIVE DecimalValue(_)
DecimalValue(digits) ==
    IF digits = <<>> THEN 0
    ELSE 10 * DecimalValue(SubSeq(digits, 1, Len(digits) - 1))
         + digits[Len(digits)]

IssuanceResponseShape ==
    Issued(signResp) =>
      LET chain == signResp.response.certificate_chain
          digits == signResp.response.serial_number
      IN /\ Len(chain) = 2
         /\ chain[1].pem.subject = signResp.request.subject
         /\ chain[1].pem.public_key = signResp.request.public_key
         /\ chain[1].pem.basic_constraints.ca = FALSE
         /\ chain[2] = Pem(root_cert)
         /\ chain[1] # chain[2]
         /\ Len(digits) >= 1
         /\ \A i \in 1..Len(digits) : digits[i] \in 0..9
         /\ digits[1] = 0 => Len(digits) = 1
         /\ DecimalValue(digits) = chain[1].pem.serial_number

\* a certificate whose serial number takes several digits has been issued
SerialOfSeveralDigits ==
    /\ Issued(signResp)
    /\ IssuedCertificate.serial_number >= 1000
    /\ Len(signResp.response.serial_number) = 4

(***************************************************************************)
(* C17  Acceptance by the Validator: a parsed upload passes validation if  *)
(* and only if its store has at least one manifest and no                  *)
(* validation_status key; a store with manifests and the key is refused    *)
(* with 403 whatever the key holds, an empty list included; a store with   *)
(* no manifest is refused with 400 whether or not it has the key.          *)
(***************************************************************************)
\* what the validation stage raised for request r
Verdict(r) == IF Done(r) THEN req[r].response ELSE req[r].outcome

ValidatorAcceptance ==
    \A r \in Reqs :
      (Has(r, "validated") \/ Has(r, "validation failed")) =>
        LET store == StoreOf(r) IN
          /\ Has(r, "validated") <=>
               /\ store.readable
               /\ ~ZeroManifests(store)
               /\ ~store.has_validation_status
          /\ Has(r, "validated") => ~Has(r, "validation failed")
          /\ (store.readable /\ ~ZeroManifests(store)
                /\ store.has_validation_status) =>
               /\ Verdict(r).kind = "HTTPException"
               /\ Verdict(r).status_code = 403
          /\ (store.readable /\ ZeroManifests(store)) =>
               /\ Verdict(r).kind = "HTTPException"
               /\ Verdict(r).status_code = 400
               /\ Verdict(r).detail =
                    "Rejected: no C2PA manifests found in the uploaded image."

\* one request refused for an empty validation_status list beside manifests,
\* the other refused for having no manifest although it has the key
EmptyStatusAndNoManifest ==
    \E r, q \in Reqs :
      /\ Rejected(r) /\ Has(r, "validation failed")
      /\ ~ZeroManifests(StoreOf(r))
      /\ StoreOf(r).has_validation_status
      /\ StoreOf(r).validation_status = <<>>
      /\ req[r].response.status_code = 403
      /\ Rejected(q) /\ Has(q, "validation failed")
      /\ StoreOf(q).readable /\ ZeroManifests(StoreOf(q))
      /\ StoreOf(q).has_validation_status
      /\ req[q].response.status_code = 400

(***************************************************************************)
(* C18  Rejection status preserved: a request refused by the validation    *)
(* stage is answered with the status and the reason that stage raised, 400 *)
(* or 403 and never 500; a request that fails at any other stage after its *)
(* directory was made (saving, re-encoding, signing, reading back) is      *)
(* answered with 500 and the text of the exception.                        *)
(***************************************************************************)
OtherFailures ==
    {"save failed", "redaction failed", "signing failed", "read failed"}

RejectionStatusPreserved ==
    \A r \in Reqs :
      (Done(r) /\ ErrorPath(r)) =>
        /\ LastStep(r) = "validation failed" =>
             LET raised == Validate(StoreOf(r)) IN
               /\ req[r].response.kind = "HTTPException"
               /\ req[r].response.status_code \in {400, 403}
               /\ req[r].response.status_code = raised.status_code
               /\ req[r].response.detail = raised.detail
        /\ LastStep(r) \in OtherFailures =>
             /\ req[r].response.kind = "HTTPException"
             /\ req[r].response.status_code = 500
             /\ req[r].response.detail \in {"save", "codec", "sign", "read"}
             /\ req[r].response.detail = req[r].outcome.detail

\* one request refused by the validation stage with 403, the other failed
\* in the Redactor and answered with 500
RefusedAndFailed ==
    \E r, q \in Reqs :
      /\ Rejected(r) /\ LastStep(r) = "validation failed"
      /\ req[r].response.status_code = 403
      /\ Rejected(q) /\ LastStep(q) = "redaction failed"
      /\ req[q].response.status_code = 500

====
